---- MODULE Spec2Model ----
(***************************************************************************)
(* Semantic place skyline (src/src/lib.rs): for a directed graph whose     *)
(* nodes carry sorted keyword sequences and a query keyword list, compute, *)
(* per keyword, a multi-source breadth-first search over incoming edges,   *)
(* then keep the nodes whose distance vector no other vector dominates.    *)
(***************************************************************************)
EXTENDS Integers, Sequences, FiniteSets, TLC

\* ------------------------------------------------------------------ bounds
\* Largest number of graph nodes; node identifiers are 1..n for n <= NumNodes.
NumNodes == 3
\* Largest number of directed edges of a graph.
MaxEdges == 3
\* Keywords are 1..NumKeywords.
NumKeywords == 2
\* Largest number of (node, keyword) tags in the keyword index.
MaxTags == 3
\* Largest length of a query keyword list.
MaxQuery == 2

\* D::max_value() of the bounded distance type D, the "unreachable" sentinel.
DMax == 2

Keywords == 1..NumKeywords

VARIABLES
    graph,            \* [nodes, edges]: the directed graph G
    node_to_keyword,  \* node -> sorted keyword sequence (nodes may be absent)
    keywords,         \* the query keyword list
    pc,               \* position in semantic_place_skyline
    dists,            \* node -> distance vector
    keyword_idx,      \* index (from 1) of the keyword being searched
    queue,            \* the breadth-first worklist
    current,          \* the node last popped from the worklist (0: none)
    dist,             \* the distance read for `current`
    result,           \* the returned Vec<(node, vector)>
    pushes,           \* history: times each node entered the worklist (this keyword)
    pops              \* history: times each node left the worklist (this keyword)

vars == <<graph, node_to_keyword, keywords, pc, dists, keyword_idx, queue,
          current, dist, result, pushes, pops>>

\* ------------------------------------------------------------------ helpers
\* All enumeration orders of a finite set (an iterator's order is not fixed).
Orderings(S) ==
    {s \in [1..Cardinality(S) -> S] : \A i, j \in DOMAIN s : i # j => s[i] # s[j]}

\* The elements of a set of numbers in ascending order (keywords.sort_unstable()).
RECURSIVE SortedSeq(_)
SortedSeq(S) ==
    IF S = {} THEN <<>>
    ELSE LET m == CHOOSE x \in S : \A y \in S : x <= y
         IN <<m>> \o SortedSeq(S \ {m})

RangeOf(s) == {s[i] : i \in DOMAIN s}

\* slice::binary_search(x).is_ok() on the half-open index range [left, right)
\* (0-based as in the code; s[mid + 1] is the element at 0-based mid).
RECURSIVE BinarySearchFrom(_, _, _, _)
BinarySearchFrom(s, x, left, right) ==
    IF left >= right THEN FALSE
    ELSE LET mid == left + ((right - left) \div 2)
         IN CASE s[mid + 1] < x -> BinarySearchFrom(s, x, mid + 1, right)
              [] s[mid + 1] > x -> BinarySearchFrom(s, x, left, mid)
              [] OTHER -> TRUE

binary_search(s, x) == BinarySearchFrom(s, x, 0, Len(s))

\* The filter closure of the seeding: the node is in the index and its
\* sequence contains the keyword.
HasKeyword(idx, node, keyword) ==
    /\ node \in DOMAIN idx
    /\ binary_search(idx[node], keyword)

\* graph.neighbors_directed(node, Direction::Incoming)
Incoming(g, node) == {e[1] : e \in {x \in g.edges : x[2] = node}}

\* dist + D::one() in a release build: the bounded type wraps around.
AddOne(d) == (d + 1) % (DMax + 1)

\* ------------------------------------------------------------------ partial_cmp
\* Option<Ordering> as "Less", "Greater", "Equal" or "None" (incomparable).
\* partial_cmp with the remaining components compared strictly (< for <=).
\* ------------------------------------------------------------------ partial_cmp
\* Option<Ordering> as "Less", "Greater", "Equal" or "None" (incomparable).

RECURSIVE partial_cmp_strict(_, _)
partial_cmp_strict(dv1, dv2) ==
    IF Len(dv1) # Len(dv2) THEN "Panic"
    ELSE IF Len(dv1) = 0 THEN "Equal"
    ELSE LET r1 == Tail(dv1)
             r2 == Tail(dv2)
         IN CASE Head(dv1) < Head(dv2) ->
                    IF \A i \in DOMAIN r1 : r1[i] < r2[i] THEN "Less" ELSE "None"
              [] Head(dv1) > Head(dv2) ->
                    IF \A i \in DOMAIN r1 : r1[i] > r2[i] THEN "Greater" ELSE "None"
              [] OTHER -> partial_cmp_strict(r1, r2)

\* partial_cmp deciding on the first differing component alone (lexicographic).
RECURSIVE partial_cmp_first(_, _)
partial_cmp_first(dv1, dv2) ==
    IF Len(dv1) # Len(dv2) THEN "Panic"
    ELSE IF Len(dv1) = 0 THEN "Equal"
    ELSE CASE Head(dv1) < Head(dv2) -> "Less"
           [] Head(dv1) > Head(dv2) -> "Greater"
           [] OTHER -> partial_cmp_first(Tail(dv1), Tail(dv2))

RECURSIVE partial_cmp(_, _)
partial_cmp(dv1, dv2) ==
    IF Len(dv1) # Len(dv2) THEN "Panic"
    ELSE IF Len(dv1) = 0 THEN "Equal"
    ELSE LET r1 == Tail(dv1)
             r2 == Tail(dv2)
         IN CASE Head(dv1) < Head(dv2) ->
                    IF \A i \in DOMAIN r1 : r1[i] <= r2[i] THEN "Less" ELSE "None"
              [] Head(dv1) > Head(dv2) ->
                    IF \A i \in DOMAIN r1 : r1[i] >= r2[i] THEN "Greater" ELSE "None"
              [] OTHER -> partial_cmp(r1, r2)

\* ------------------------------------------------------------------ state machine
Graphs ==
    UNION {
        {[nodes |-> 1..n, edges |-> E] :
            E \in {X \in SUBSET ((1..n) \X (1..n)) : Cardinality(X) <= MaxEdges}}
        : n \in 0..NumNodes}

\* The keyword index built from a set of (node, keyword) tags: a node with no
\* tag is absent, every sequence is sorted and duplicate-free.
IndexOf(T) ==
    [node \in {t[1] : t \in T} |-> SortedSeq({t[2] : t \in {x \in T : x[1] = node}})]

Indexes(g) ==
    {IndexOf(T) : T \in {X \in SUBSET (g.nodes \X Keywords) : Cardinality(X) <= MaxTags}}

Queries == UNION {[1..m -> Keywords] : m \in 0..MaxQuery}

Zeros(g) == [node \in g.nodes |-> 0]

Init ==
    /\ graph \in Graphs
    /\ node_to_keyword \in Indexes(graph)
    /\ keywords \in Queries
    /\ pc = "start"
    /\ dists = <<>>
    /\ keyword_idx = 0
    /\ queue = <<>>
    /\ current = 0
    /\ dist = 0
    /\ result = <<>>
    /\ pushes = Zeros(graph)
    /\ pops = Zeros(graph)

\* The assertion left out: every query is accepted.
QueryAlwaysAccepted(kws) == TRUE

\* assert!(!keywords.is_empty())
QueryAccepted(kws) == Len(kws) # 0

\* The assertion fails: the call panics before anything else happens.
AssertFails ==
    /\ pc = "start"
    /\ ~QueryAccepted(keywords)
    /\ pc' = "panicked"
    /\ UNCHANGED <<graph, node_to_keyword, keywords, dists, keyword_idx, queue,
                   current, dist, result, pushes, pops>>

\* The vectors keyed by the keyword index instead of the graph's nodes.
DistKeysIndexed(g, idx) == DOMAIN idx

\* The keys of the freshly collected `dists` map.
DistKeys(g, idx) == g.nodes

\* vec![D::max_value(); keywords.len()] for every node identifier.
InitialDists(g, idx, kws) ==
    [node \in DistKeys(g, idx) |-> [i \in 1..Len(kws) |-> DMax]]

InitDists ==
    /\ pc = "start"
    /\ QueryAccepted(keywords)
    /\ dists' = InitialDists(graph, node_to_keyword, keywords)
    /\ keyword_idx' = 1
    /\ pc' = IF Len(keywords) >= 1 THEN "seed" ELSE "filter"
    /\ UNCHANGED <<graph, node_to_keyword, keywords, queue, current, dist,
                   result, pushes, pops>>

\* The seeding stopping at the first node that carries the keyword.
SeedsFirst(order, idx, keyword) ==
    LET all == SelectSeq(order, LAMBDA node : HasKeyword(idx, node, keyword))
    IN IF all = <<>> THEN <<>> ELSE <<Head(all)>>

\* graph.node_identifiers().filter(..).collect(), in the iterator's order.
Seeds(order, idx, keyword) ==
    SelectSeq(order, LAMBDA node : HasKeyword(idx, node, keyword))

\* for node in &queue { dists[node][keyword_idx] = D::zero() }
ZeroSeeds(d, q, ki) ==
    [node \in DOMAIN d |->
        IF node \in RangeOf(q) THEN [d[node] EXCEPT ![ki] = 0] ELSE d[node]]

Bump(c) == IF c < 2 THEN c + 1 ELSE c

Seed ==
    /\ pc = "seed"
    /\ \E order \in Orderings(graph.nodes) :
        LET q == Seeds(order, node_to_keyword, keywords[keyword_idx])
        IN IF RangeOf(q) \subseteq DOMAIN dists
           THEN /\ queue' = q
                /\ dists' = ZeroSeeds(dists, q, keyword_idx)
                /\ pushes' = [node \in graph.nodes |-> IF node \in RangeOf(q) THEN 1 ELSE 0]
                /\ pops' = Zeros(graph)
                /\ pc' = "bfs"
           ELSE /\ pc' = "panicked"
                /\ UNCHANGED <<queue, dists, pushes, pops>>
    /\ UNCHANGED <<graph, node_to_keyword, keywords, keyword_idx, current, dist, result>>

\* The comparison relaxed to <=.
ImprovesOrTies(d, nbr_dist) == AddOne(d) <= nbr_dist

\* if dist + D::one() < *nbr_dist
Improves(d, nbr_dist) == AddOne(d) < nbr_dist

\* The for loop with push_back outside the if: every neighbour is appended.
RECURSIVE RelaxPushAll(_, _, _, _, _, _)
RelaxPushAll(nbrs, d, ki, ds, q, pu) ==
    IF nbrs = <<>> THEN [dists |-> ds, queue |-> q, pushes |-> pu]
    ELSE LET nbr == Head(nbrs)
         IN RelaxPushAll(Tail(nbrs), d, ki,
                IF Improves(d, ds[nbr][ki]) THEN [ds EXCEPT ![nbr][ki] = AddOne(d)] ELSE ds,
                Append(q, nbr),
                [pu EXCEPT ![nbr] = Bump(@)])

\* The body of the for loop over the incoming neighbours, in their order.
RECURSIVE Relax(_, _, _, _, _, _)
Relax(nbrs, d, ki, ds, q, pu) ==
    IF nbrs = <<>> THEN [dists |-> ds, queue |-> q, pushes |-> pu]
    ELSE LET nbr == Head(nbrs)
         IN IF Improves(d, ds[nbr][ki])
            THEN Relax(Tail(nbrs), d, ki,
                       [ds EXCEPT ![nbr][ki] = AddOne(d)],
                       Append(q, nbr),
                       [pu EXCEPT ![nbr] = Bump(@)])
            ELSE Relax(Tail(nbrs), d, ki, ds, q, pu)

\* queue.pop_front()
PopFront(q) == [node |-> Head(q), rest |-> Tail(q)]

\* The search following outgoing edges.
NeighborsOutgoing(g, node) == {e[2] : e \in {x \in g.edges : x[1] = node}}

\* The direction the search follows from the popped node.
Neighbors(g, node) == Incoming(g, node)

\* One iteration of `while let Some(current) = queue.pop_front()`.
Pop ==
    /\ pc = "bfs"
    /\ queue # <<>>
    /\ LET p == PopFront(queue)
           nbrSet == Neighbors(graph, p.node)
       IN IF p.node \notin DOMAIN dists \/ ~(nbrSet \subseteq DOMAIN dists)
          THEN \* dists[&current] or the unwrap of the neighbour's lookup panics
               /\ pc' = "panicked"
               /\ UNCHANGED <<dists, queue, current, dist, pushes, pops>>
          ELSE LET d == dists[p.node][keyword_idx]
               IN /\ current' = p.node
                  /\ dist' = d
                  /\ pops' = [pops EXCEPT ![p.node] = Bump(@)]
                  /\ \E nbrs \in Orderings(nbrSet) :
                        LET r == Relax(nbrs, d, keyword_idx, dists, p.rest, pushes)
                        IN /\ dists' = r.dists
                           /\ queue' = r.queue
                           /\ pushes' = r.pushes
                  /\ pc' = "bfs"
    /\ UNCHANGED <<graph, node_to_keyword, keywords, keyword_idx, result>>

\* The worklist is empty: the for loop moves to the next keyword, or ends.
NextKeyword ==
    /\ pc = "bfs"
    /\ queue = <<>>
    /\ IF keyword_idx < Len(keywords)
       THEN /\ keyword_idx' = keyword_idx + 1
            /\ pc' = "seed"
       ELSE /\ keyword_idx' = keyword_idx
            /\ pc' = "filter"
    /\ UNCHANGED <<graph, node_to_keyword, keywords, dists, queue, current, dist,
                   result, pushes, pops>>

\* The filter keeping the maximal elements (Greater for Less).
SurvivesMaximal(ds, u) == \A v \in DOMAIN ds : partial_cmp(ds[v], ds[u]) # "Greater"

\* The filter treating a tie as dominance.
SurvivesNoTie(ds, u) == \A v \in DOMAIN ds : partial_cmp(ds[v], ds[u]) \notin {"Less", "Equal"}

\* .filter(|(_, du)| dists.values().all(|dv| partial_cmp(dv, du) != Some(Less)))
Survives(ds, u) == \A v \in DOMAIN ds : partial_cmp(ds[v], ds[u]) # "Less"

\* dists.iter().filter(..).map(|(u, du)| (*u, du.clone())).collect(), the map
\* being iterated in `order`.
RECURSIVE SkylineFilter(_, _)
SkylineFilter(ds, order) ==
    IF order = <<>> THEN <<>>
    ELSE LET u == Head(order)
         IN (IF Survives(ds, u) THEN <<(<<u, ds[u]>>)>> ELSE <<>>)
            \o SkylineFilter(ds, Tail(order))

Filter ==
    /\ pc = "filter"
    /\ \E order \in Orderings(DOMAIN dists) :
        result' = SkylineFilter(dists, order)
    /\ pc' = "done"
    /\ UNCHANGED <<graph, node_to_keyword, keywords, dists, keyword_idx, queue,
                   current, dist, pushes, pops>>

Next == AssertFails \/ InitDists \/ Seed \/ Pop \/ NextKeyword \/ Filter

Spec == Init /\ [][Next]_vars

\* The call is single-threaded and synchronous: it always takes its next step.
FairSpec == Spec /\ WF_vars(Next)

\* The whole call as a function of its inputs, every iterator enumerating in
\* ascending order of node identifier.
RECURSIVE RunBfs(_, _, _, _)
RunBfs(g, ki, ds, q) ==
    IF q = <<>> THEN ds
    ELSE LET p == PopFront(q)
             r == Relax(SortedSeq(Neighbors(g, p.node)), ds[p.node][ki], ki, ds,
                        p.rest, Zeros(g))
         IN RunBfs(g, ki, r.dists, r.queue)

RECURSIVE RunKeywords(_, _, _, _, _)
RunKeywords(g, idx, kws, ki, ds) ==
    IF ki > Len(kws) THEN ds
    ELSE LET q == Seeds(SortedSeq(g.nodes), idx, kws[ki])
         IN RunKeywords(g, idx, kws, ki + 1, RunBfs(g, ki, ZeroSeeds(ds, q, ki), q))

semantic_place_skyline(g, idx, kws) ==
    SkylineFilter(RunKeywords(g, idx, kws, 1, InitialDists(g, idx, kws)),
                  SortedSeq(g.nodes))

\* ------------------------------------------------------------------ reference notions
\* The nodes reached from n by at most k edges, following edge direction.
RECURSIVE ReachWithin(_, _)
ReachWithin(n, k) ==
    IF k = 0 THEN {n}
    ELSE LET R == ReachWithin(n, k - 1)
         IN R \cup {e[2] : e \in {x \in graph.edges : x[1] \in R}}

\* The node's keyword sequence contains the keyword (plain membership).
Carries(node, keyword) ==
    /\ node \in DOMAIN node_to_keyword
    /\ \E i \in DOMAIN node_to_keyword[node] : node_to_keyword[node][i] = keyword

\* The lengths k for which some node carrying the keyword is within k edges of n.
PathLens(n, keyword) ==
    {k \in 0..Cardinality(graph.nodes) :
        \E m \in ReachWithin(n, k) : Carries(m, keyword)}

Reachable(n, keyword) == PathLens(n, keyword) # {}

ShortestLen(n, keyword) ==
    CHOOSE k \in PathLens(n, keyword) : \A j \in PathLens(n, keyword) : k <= j

\* a dominates b: no worse in every dimension, strictly better in one.
ParetoDominates(a, b) ==
    /\ \A i \in DOMAIN a : a[i] <= b[i]
    /\ \E j \in DOMAIN a : a[j] < b[j]

Vectors(len) == [1..len -> 0..DMax]

ResultNodes == {x[1] : x \in RangeOf(result)}

DistancePhaseDone == pc \in {"filter", "done"}

Permuted(v, p) == [i \in DOMAIN p |-> v[p[i]]]

\* ------------------------------------------------------------------ claims

\* C1 (as stated): after the distance phase every graph node has a vector whose
\* entry i is the edge count of the shortest directed path to a node carrying
\* keywords[i], and is the sentinel if and only if no such path exists.
C1_Original ==
    DistancePhaseDone =>
        /\ DOMAIN dists = graph.nodes
        /\ \A n \in graph.nodes : \A i \in DOMAIN keywords :
            /\ Reachable(n, keywords[i]) => dists[n][i] = ShortestLen(n, keywords[i])
            /\ dists[n][i] = DMax <=> ~Reachable(n, keywords[i])

\* C1 (amended): after the distance phase every graph node has a vector of the
\* query's length; entry i is the shortest directed path length to a node
\* carrying keywords[i] when that length is below the sentinel DMax, and is the
\* sentinel otherwise (no path, or only paths of DMax edges or more).
C1_Distances ==
    DistancePhaseDone =>
        /\ DOMAIN dists = graph.nodes
        /\ \A n \in graph.nodes :
            /\ Len(dists[n]) = Len(keywords)
            /\ \A i \in DOMAIN keywords :
                dists[n][i] =
                    IF Reachable(n, keywords[i]) /\ ShortestLen(n, keywords[i]) < DMax
                    THEN ShortestLen(n, keywords[i])
                    ELSE DMax

\* A node whose nearest keyword node is DMax edges away holds the sentinel,
\* next to a node that received DMax - 1 by propagation and an unreachable one.
C1_Witness ==
    /\ DistancePhaseDone
    /\ \E n, m \in graph.nodes : \E i \in DOMAIN keywords :
        /\ Reachable(n, keywords[i])
        /\ ShortestLen(n, keywords[i]) = DMax
        /\ dists[n][i] = DMax
        /\ dists[m][i] = DMax - 1

\* C2: the result is exactly the pairs (u, vec(u)) of the graph nodes u whose
\* vector no graph node's vector Pareto-dominates, and partial_cmp answers Less
\* exactly for Pareto dominance on all vectors of the query's length.
C2_SkylineIsParetoSet ==
    pc = "done" =>
        /\ RangeOf(result) =
            {<<u, dists[u]>> : u \in
                {x \in graph.nodes :
                    ~\E v \in graph.nodes : ParetoDominates(dists[v], dists[x])}}
        /\ \A a, b \in Vectors(Len(keywords)) :
            partial_cmp(a, b) = "Less" <=> ParetoDominates(a, b)

\* Two members with incomparable vectors, one holding the sentinel, and a
\* dominated node left out.
C2_Witness ==
    /\ pc = "done"
    /\ Len(keywords) = 2
    /\ \E x, y \in RangeOf(result) :
        /\ partial_cmp(x[2], y[2]) = "None"
        /\ \E i \in DOMAIN x[2] : x[2][i] = DMax
    /\ \E u \in graph.nodes : u \notin ResultNodes

\* C3: no two distinct members of the result are related by Less or Greater,
\* and every graph node left out is dominated by the vector of a member.
C3_DominanceFree ==
    pc = "done" =>
        /\ \A i, j \in DOMAIN result :
            i # j => partial_cmp(result[i][2], result[j][2]) \notin {"Less", "Greater"}
        /\ \A u \in graph.nodes \ ResultNodes :
            \E x \in RangeOf(result) : partial_cmp(x[2], dists[u]) = "Less"

\* A node left out that is dominated by another node left out as well as by a
\* member of the result.
C3_Witness ==
    /\ pc = "done"
    /\ Len(result) >= 1
    /\ \E u, v \in graph.nodes \ ResultNodes :
        /\ u # v
        /\ partial_cmp(dists[v], dists[u]) = "Less"

\* C4: with at least one graph node and a non-empty query the result is not empty.
C4_NonEmpty ==
    (pc = "done" /\ graph.nodes # {} /\ Len(keywords) > 0) => Len(result) > 0

\* A completed query on a graph with nodes where the filter removed a node.
C4_Witness ==
    /\ pc = "done"
    /\ graph.nodes # {}
    /\ Len(keywords) > 0
    /\ Len(result) > 0
    /\ Len(result) < Cardinality(graph.nodes)

\* C5: an empty query fails before any other step (no vector, no worklist, no
\* visit, no result), and a non-empty query never ends in the failure state.
C5_FailFast ==
    /\ pc = "panicked" =>
        /\ Len(keywords) = 0
        /\ dists = <<>>
        /\ queue = <<>>
        /\ result = <<>>
        /\ current = 0
        /\ \A n \in graph.nodes : pushes[n] = 0 /\ pops[n] = 0
    /\ Len(keywords) = 0 => pc \in {"start", "panicked"}

\* The failed call, on a graph with nodes and an index with seeds to offer.
C5_Witness ==
    /\ pc = "panicked"
    /\ Len(keywords) = 0
    /\ graph.nodes # {}
    /\ DOMAIN node_to_keyword # {}

\* C6: under any permutation p of the query list the skyline has the same nodes,
\* each vector is the same permutation of the node's vector, and partial_cmp
\* gives the same outcome on vectors permuted alike.
C6_QueryOrder ==
    pc = "done" =>
        \A p \in Orderings(DOMAIN keywords) :
            LET r == semantic_place_skyline(graph, node_to_keyword, Permuted(keywords, p))
            IN /\ {x[1] : x \in RangeOf(r)} = ResultNodes
               /\ \A x \in RangeOf(r) : x[2] = Permuted(dists[x[1]], p)
               /\ \A u, v \in graph.nodes :
                    partial_cmp(Permuted(dists[u], p), Permuted(dists[v], p))
                        = partial_cmp(dists[u], dists[v])

\* A two-keyword query of distinct keywords with incomparable vectors in the
\* result and a dominated node left out.
C6_Witness ==
    /\ pc = "done"
    /\ Len(keywords) = 2
    /\ keywords[1] # keywords[2]
    /\ \E x, y \in RangeOf(result) :
        /\ partial_cmp(x[2], y[2]) = "None"
        /\ x[2][1] # x[2][2]
    /\ \E u \in graph.nodes : u \notin ResultNodes

\* C7: the set of (node, vector) pairs returned is the same whatever order the
\* node identifiers and the incoming neighbours are enumerated in: it is the
\* set the call returns when every enumeration is in ascending order.
C7_OrderIndependent ==
    pc = "done" =>
        /\ RangeOf(result) =
            RangeOf(semantic_place_skyline(graph, node_to_keyword, keywords))
        /\ Cardinality(RangeOf(result)) = Len(result)

\* A result listed in descending node order after a search with several seeds
\* and a popped node with several incoming neighbours.
C7_Witness ==
    /\ pc = "done"
    /\ Len(result) >= 2
    /\ result[1][1] > result[2][1]
    /\ Cardinality({n \in graph.nodes : dists[n][Len(keywords)] = 0}) >= 2
    /\ \E n \in graph.nodes : Cardinality(Incoming(graph, n)) >= 2

\* C8: within one keyword's search each node enters the worklist at most once
\* and leaves it at most once, and a distance once finite never changes.
C8_AtMostOnce ==
    /\ [](\A n \in graph.nodes : pushes[n] <= 1 /\ pops[n] <= 1)
    /\ [][\A n \in DOMAIN dists :
            (keyword_idx' = keyword_idx /\ pc = "bfs" /\ dists[n][keyword_idx] < DMax)
                => dists'[n][keyword_idx] = dists[n][keyword_idx]]_vars

\* A finished search over a graph with a cycle and a self-loop, with several
\* seeds and a popped node that was not a seed.
C8_Witness ==
    /\ pc = "bfs"
    /\ queue = <<>>
    /\ \E n \in graph.nodes : <<n, n>> \in graph.edges
    /\ \E n, m \in graph.nodes : n # m /\ <<n, m>> \in graph.edges /\ <<m, n>> \in graph.edges
    /\ Cardinality({n \in graph.nodes : dists[n][keyword_idx] = 0}) >= 2
    /\ \E n \in graph.nodes : pops[n] = 1 /\ dists[n][keyword_idx] > 0

\* C9: every non-empty query reaches its completed state; no state but the
\* empty-query failure and the completed state is a dead end, and no distance
\* vector lookup fails.
C9_Terminates ==
    /\ [](pc \notin {"done", "panicked"} => ENABLED Next)
    /\ [](pc = "panicked" => Len(keywords) = 0)
    /\ (Len(keywords) > 0) ~> (pc = "done")

\* A completed two-keyword query over a graph with a cycle and a self-loop.
C9_Witness ==
    /\ pc = "done"
    /\ Len(keywords) = 2
    /\ \E n \in graph.nodes : <<n, n>> \in graph.edges
    /\ \E n, m \in graph.nodes : n # m /\ <<n, m>> \in graph.edges /\ <<m, n>> \in graph.edges
    /\ \E n \in graph.nodes : dists[n][1] = 1

\* C10: every node in the worklist, and so every node popped, has a distance
\* below the sentinel DMax, so dist + 1 is at most DMax and never wraps; a node
\* written during the search holds a value below DMax.
C10_NoOverflow ==
    /\ pc = "bfs" =>
        /\ \A i \in DOMAIN queue : dists[queue[i]][keyword_idx] < DMax
        /\ \A n \in graph.nodes : pushes[n] > 0 => dists[n][keyword_idx] < DMax
    /\ current # 0 => (dist < DMax /\ dist + 1 <= DMax /\ AddOne(dist) = dist + 1)

\* A popped node at distance DMax - 1 whose incoming neighbour keeps the
\* sentinel: the increment reached DMax and was not stored.
C10_Witness ==
    /\ pc = "bfs"
    /\ current # 0
    /\ dist = DMax - 1
    /\ \E nbr \in Incoming(graph, current) : dists[nbr][keyword_idx] = DMax

====
